---- MODULE Spec2Model ----
(***************************************************************************)
(* Shopify webhook handler: HMAC verification middleware, the ingestion    *)
(* endpoint, the 'order-processing' queue and its processor, as written in *)
(* product-list/README.md (webhook-handler.js); and the React component    *)
(* ProductList (ProductList.jsx), a paginated, searchable product list.    *)
(*                                                                         *)
(* Strings that cross the wire are sequences: a raw body is a sequence of  *)
(* lexical tokens, a signature header a sequence of Base64 alphabet        *)
(* indices (0..63, 64 for the '=' pad).  Requests are assumed to carry     *)
(* Content-Type application/json, so that express.raw() delivers the body, *)
(* and SHOPIFY_WEBHOOK_SECRET is assumed to be set.                        *)
(***************************************************************************)
EXTENDS Integers, Sequences, FiniteSets, TLC

VARIABLES
    reqs,      \* the inbound requests so far: input, responses sent, handler position
    jobs,      \* the queue's job table, jobId = index
    workers,   \* worker loop -> the jobId it is executing, 0 when idle
    now,       \* the clock, in ms
    alerts,    \* what sendFailureAlert was called with, in order
    vin,       \* the verifier's input  (SpecVerify)
    vout,      \* the verifier's result (SpecVerify)
    ui,        \* ProductList: the component's state (its useState cells)
    timer,     \* ProductList: the debounce timeout and the text it captured
    fetches,   \* ProductList: the requests issued so far, in order
    dirty,     \* ProductList: a render changed the fetch effect's deps, the
               \* effect has not run yet
    retried    \* ProductList: 'Reintentar' has been clicked

vars == <<reqs, jobs, workers, now, alerts, vin, vout, ui, timer, fetches, dirty, retried>>
hookVars == <<reqs, jobs, workers, now, alerts, vin, vout>>
listVars == <<ui, timer, fetches, dirty, retried>>

----------------------------------------------------------------------------
(* Bounds of the model *)

\* inbound requests in a run
MaxRequests == 1
\* tokens in a raw body handed to the verifier alone
MaxBodyLen == 2
\* worker loops pulling from the queue
Workers == 2
\* requests ProductList issues in a run
MaxFetches == 3

----------------------------------------------------------------------------
(* ProductList.jsx: state, effects, event handlers *)

itemsPerPage == 12
maxVisible == 5

Min(a, b) == IF a < b THEN a ELSE b
Max(a, b) == IF a > b THEN a ELSE b

\* texts the user leaves in the search box, as sequences of characters
SearchInputs == {<< >>, <<"a">>, <<"a", " ">>}

\* String.prototype.trim
RECURSIVE trimStart(_)
trimStart(s) == IF s # << >> /\ Head(s) = " " THEN trimStart(Tail(s)) ELSE s
RECURSIVE trimEnd(_)
trimEnd(s) ==
    IF s # << >> /\ s[Len(s)] = " " THEN trimEnd(SubSeq(s, 1, Len(s) - 1)) ELSE s
trim(s) == trimEnd(trimStart(s))

\* what a request may end with when it is not aborted: a 200 whose body
\* reports `total` products, a 200 whose body is not JSON, a response that is
\* not ok, or no response at all: fetch rejects, with an error that has a
\* message or one that has none
Totals == {0, 13, 30}
Responses ==
    {[kind |-> "ok", total |-> t, message |-> ""] : t \in Totals}
    \cup {[kind |-> "notjson", total |-> 0, message |-> "Unexpected token <"],
          [kind |-> "http", total |-> 0, message |-> ""],
          [kind |-> "network", total |-> 0, message |-> "Failed to fetch"],
          [kind |-> "network", total |-> 0, message |-> ""]}
NoResponse == [kind |-> "none", total |-> 0, message |-> ""]

\* response.ok
ok(res) == res.kind \in {"ok", "notjson"}

\* what the try block throws, if it throws: the rejection of fetch, the Error
\* made from a response that is not ok, or the rejection of response.json()
NotThrown == "not thrown"
Thrown(res) ==
    IF res.kind = "network" THEN res.message
    ELSE IF ~ok(res) THEN "Error 500: Internal Server Error"
    ELSE IF res.kind = "notjson" THEN res.message
    ELSE NotThrown

\* faulty variant: the message of the error is shown as it is
ErrorMessage_NoDefault(message) == message

\* err?.message || "Error al cargar los productos"
ErrorMessage(message) ==
    IF message = "" THEN "Error al cargar los productos" ELSE message

\* the number of products DummyJSON puts in the list for ?limit=12&skip=skip
ListLength(total, skip) == Min(itemsPerPage, Max(0, total - skip))

\* Math.ceil(total / itemsPerPage)
ceil(total, per) == (total + per - 1) \div per

\* the delay of the debounce timeout, in ms
debounceMs == 400
\* the steps in which time is observed to pass, in ms
Waits == {100, 300}

\* setTimeout(() => setDebouncedSearch(searchTerm.trim()), 400): the text the
\* callback closed over and the time left until it runs
SetTimeout(value) == [pending |-> TRUE, value |-> value, remaining |-> debounceMs]
NoTimer == [pending |-> FALSE, value |-> << >>, remaining |-> 0]
null == "null"

\* the list shown: how many products, and which request delivered them
NoProducts == [req |-> 0, count |-> 0]

\* encodeURIComponent, on the characters of SearchInputs
encodeURIComponent(s) == [i \in DOMAIN s |-> IF s[i] = " " THEN "%20" ELSE s[i]]

\* new URLSearchParams({limit: String(itemsPerPage), skip: String(skip)}).toString()
URLSearchParams(skip) ==
    <<"limit", "=", ToString(itemsPerPage), "&", "skip", "=", ToString(skip)>>

\* the URL fetch is called with, as a sequence of characters and words:
\* `${baseUrl}?${params.toString()}`
RequestUrl(currentPage, debouncedSearch) ==
    LET skip == (currentPage - 1) * itemsPerPage
        baseUrl == IF debouncedSearch # << >>
                   THEN <<"apiUrl", "/search", "?", "q", "=">>
                            \o encodeURIComponent(debouncedSearch)
                   ELSE <<"apiUrl">>
    IN  baseUrl \o <<"?">> \o URLSearchParams(skip)

\* a request: the page and term its effect run closed over, its URL, whether
\* its controller was aborted while it was in flight, whether it has ended,
\* and what the server answered
NewFetch(page, term) ==
    [page |-> page, term |-> term, url |-> RequestUrl(page, term),
     aborted |-> FALSE, settled |-> FALSE, res |-> NoResponse]

\* after the first render and its effects: the debounce timeout is set and
\* the first request is out
Mounted ==
    /\ ui = [products |-> NoProducts, status |-> "loading", error |-> null,
             currentPage |-> 1, totalPages |-> 1,
             searchTerm |-> << >>, debouncedSearch |-> << >>]
    /\ timer = SetTimeout(<< >>)
    /\ fetches = <<NewFetch(1, << >>)>>
    /\ dirty = FALSE
    /\ retried = FALSE

\* faulty variant: an abort is reported like any other failure
fetchProducts_NoAbortCheck(u, id, f, res) ==
    IF f.aborted
    THEN [u EXCEPT !.status = "error", !.error = "The operation was aborted."]
    ELSE IF Thrown(res) = NotThrown
    THEN [u EXCEPT !.products =
                       [req |-> id,
                        count |-> ListLength(res.total, (f.page - 1) * itemsPerPage)],
                   !.totalPages = Max(1, ceil(res.total, itemsPerPage)),
                   !.status = "success"]
    ELSE [u EXCEPT !.status = "error",
                   !.error = ErrorMessage(Thrown(res))]

\* fetchProducts from the point where `await fetch(...)` settles, for request
\* id = f: an aborted request rejects with an AbortError, whatever the server
\* did, and the catch block returns
fetchProducts(u, id, f, res) ==
    IF f.aborted
    THEN u
    ELSE IF Thrown(res) = NotThrown
    THEN [u EXCEPT !.products =
                       [req |-> id,
                        count |-> ListLength(res.total, (f.page - 1) * itemsPerPage)],
                   !.totalPages = Max(1, ceil(res.total, itemsPerPage)),
                   !.status = "success"]
    ELSE [u EXCEPT !.status = "error",
                   !.error = ErrorMessage(Thrown(res))]

\* faulty variant: the effect has no cleanup, earlier requests stay alive
Refetch_NoAbort(fs, page, term) == Append(fs, NewFetch(page, term))

\* the fetch effect re-run: the cleanup of the previous run aborts its
\* controller, then the new run issues a request for (page, term)
Refetch(fs, page, term) ==
    Append([fs EXCEPT ![Len(fs)].aborted = ~fs[Len(fs)].settled],
           NewFetch(page, term))

\* fetchProducts up to the await: setStatus("loading"), setError(null)
Loading(u) == [u EXCEPT !.status = "loading", !.error = null]

\* React runs an effect that is still pending before it renders again: the
\* state an event's updates are applied to
Flushed ==
    IF dirty
    THEN [ui |-> Loading(ui),
          fetches |-> Refetch(fetches, ui.currentPage, ui.debouncedSearch)]
    ELSE [ui |-> ui, fetches |-> fetches]

\* the pending fetch effect runs
RunFetchEffect ==
    /\ dirty
    /\ ui' = Flushed.ui
    /\ fetches' = Flushed.fetches
    /\ dirty' = FALSE
    /\ UNCHANGED <<timer, retried, hookVars>>

\* setCurrentPage(p) from an event handler, the render and the effects after it
SetCurrentPage(p) ==
    IF p # ui.currentPage
    THEN /\ Len(Flushed.fetches) < MaxFetches
         /\ ui' = [Loading(Flushed.ui) EXCEPT !.currentPage = p]
         /\ fetches' = Refetch(Flushed.fetches, p, ui.debouncedSearch)
         /\ dirty' = FALSE
    ELSE \* the same value: no render, no effect
         UNCHANGED <<ui, fetches, dirty>>

\* faulty variant of the updater: it yields a page the list is not on
SamePage_Zero(p) == 0

\* the updater the 'Reintentar' button passes to setCurrentPage: (p) => p
SamePage(p) == p

\* the 'Reintentar' button of the error screen: setCurrentPage((p) => p)
Retry ==
    /\ ui.status = "error"
    /\ SetCurrentPage(SamePage(ui.currentPage))
    /\ retried' = TRUE
    /\ UNCHANGED <<timer, hookVars>>

\* the pagination is on screen
Paginated == ui.status = "success" /\ ui.products.count > 0

handleNextPage ==
    /\ Paginated
    /\ ui.currentPage < ui.totalPages
    /\ SetCurrentPage(ui.currentPage + 1)
    /\ UNCHANGED <<timer, retried, hookVars>>

handlePrevPage ==
    /\ Paginated
    /\ ui.currentPage > 1
    /\ SetCurrentPage(ui.currentPage - 1)
    /\ UNCHANGED <<timer, retried, hookVars>>

\* faulty variant: the window is not moved back when it is cut at the last page
pageNumbers_NoReadjust(currentPage, totalPages) ==
    LET startPage == Max(1, currentPage - (maxVisible \div 2))
        endPage == Min(totalPages, startPage + maxVisible - 1)
    IN  [i \in 1..(endPage - startPage + 1) |-> startPage + i - 1]

\* the page numbers shown, at most maxVisible of them
pageNumbers(currentPage, totalPages) ==
    LET start0 == Max(1, currentPage - (maxVisible \div 2))
        endPage == Min(totalPages, start0 + maxVisible - 1)
        startPage == IF endPage - start0 < maxVisible - 1
                     THEN Max(1, endPage - maxVisible + 1)
                     ELSE start0
    IN  [i \in 1..(endPage - startPage + 1) |-> startPage + i - 1]

\* the pages that have a button: the visible numbers, the first and the last
PageButtons ==
    LET pages == pageNumbers(ui.currentPage, ui.totalPages)
    IN  {pages[i] : i \in DOMAIN pages}
        \cup (IF pages # << >> /\ pages[1] > 1 THEN {1} ELSE {})
        \cup (IF pages # << >> /\ pages[Len(pages)] < ui.totalPages
              THEN {ui.totalPages} ELSE {})

handlePageClick(pageNum) ==
    /\ Paginated
    /\ pageNum \in PageButtons \ {ui.currentPage}
    /\ SetCurrentPage(pageNum)
    /\ UNCHANGED <<timer, retried, hookVars>>

\* setSearchTerm(v); setCurrentPage(1), and what follows: the debounce effect
\* clears its timeout and sets a new one, the fetch effect runs again if the
\* page changed
SetSearchTerm(v) ==
    /\ Len(Flushed.fetches) < MaxFetches
    /\ v # ui.searchTerm
    /\ timer' = SetTimeout(v)
    /\ IF ui.currentPage # 1
       THEN /\ ui' = [Loading(Flushed.ui) EXCEPT !.searchTerm = v, !.currentPage = 1]
            /\ fetches' = Refetch(Flushed.fetches, 1, ui.debouncedSearch)
       ELSE /\ ui' = [Flushed.ui EXCEPT !.searchTerm = v]
            /\ fetches' = Flushed.fetches
    /\ dirty' = FALSE

\* the search input's onChange
SearchChange(v) ==
    /\ ui.status = "success"
    /\ SetSearchTerm(v)
    /\ UNCHANGED <<retried, hookVars>>

\* the 'Limpiar busqueda' button of the empty list
ClearSearch ==
    /\ ui.status = "success"
    /\ ui.products.count = 0
    /\ ui.searchTerm # << >>
    /\ SetSearchTerm(<< >>)
    /\ UNCHANGED <<retried, hookVars>>

\* the debounce timeout fires: setDebouncedSearch(searchTerm.trim())
DebounceFires ==
    /\ timer.pending
    /\ timer.remaining = 0
    /\ Len(fetches) + (IF dirty THEN 1 ELSE 0) < MaxFetches
    /\ timer' = NoTimer
    /\ ui' = [ui EXCEPT !.debouncedSearch = trim(timer.value)]
    /\ dirty' = (dirty \/ trim(timer.value) # ui.debouncedSearch)
    /\ UNCHANGED <<fetches, retried, hookVars>>

\* time passes, no further than the moment the timeout is due
Elapse(ms) ==
    /\ timer.pending
    /\ ms <= timer.remaining
    /\ timer' = [timer EXCEPT !.remaining = @ - ms]
    /\ UNCHANGED <<ui, fetches, dirty, retried, hookVars>>

\* request id ends: with an AbortError when aborted, else as the server decides
Settle(id, res) ==
    /\ id \in DOMAIN fetches
    /\ ~fetches[id].settled
    /\ fetches' = [fetches EXCEPT ![id].settled = TRUE, ![id].res = res]
    /\ ui' = fetchProducts(ui, id, fetches[id], res)
    /\ UNCHANGED <<timer, dirty, retried, hookVars>>

----------------------------------------------------------------------------
(* webhook-handler.js: configuration *)

MAX_RETRIES == 5
INITIAL_RETRY_DELAY == 1000
SHOPIFY_WEBHOOK_SECRET == 1
\* the keys a sender may sign with: the shared secret, and one that is not it
Keys == {0, SHOPIFY_WEBHOOK_SECRET}
ForeignKey == CHOOSE k \in Keys : k # SHOPIFY_WEBHOOK_SECRET
\* SHA-256 digests are 32 bytes
DigestLen == 32
\* the '=' of Base64
Pad == 64

----------------------------------------------------------------------------
(* Bytes on the wire *)

Tokens == {"{", "}", "o", "null"}

TokCode(t) ==
    CASE t = "{" -> 1
      [] t = "}" -> 2
      [] t = "o" -> 3
      [] t = "null" -> 4

RECURSIVE MsgCode(_)
MsgCode(msg) ==
    IF msg = << >> THEN 0
    ELSE MsgCode(SubSeq(msg, 1, Len(msg) - 1)) * 5 + TokCode(msg[Len(msg)])

\* crypto.createHmac('sha256', key).update(msg).digest(): a keyed digest of
\* DigestLen bytes.  Collision resistance is the assumption made of HMAC: the
\* first two bytes carry (msg, key) injectively, the others mix them.
HmacSha256(key, msg) ==
    LET n == MsgCode(msg) * 2 + key
    IN  [i \in 1..DigestLen |->
            CASE i = 1 -> n % 256
              [] i = 2 -> (n \div 256) % 256
              [] OTHER -> (n * (2 * i + 1) + 37 * i) % 256]

\* .digest('base64'): 3 bytes -> 4 characters, '=' padded
Base64(bytes) ==
    LET n == Len(bytes)
        groups == (n + 2) \div 3
        B(k) == IF k <= n THEN bytes[k] ELSE 0
        Char(g, c) ==
            LET b1 == B(3 * g + 1)
                b2 == B(3 * g + 2)
                b3 == B(3 * g + 3)
            IN  CASE c = 1 -> b1 \div 4
                  [] c = 2 -> (b1 % 4) * 16 + (b2 \div 16)
                  [] c = 3 -> IF 3 * g + 2 > n THEN Pad
                              ELSE (b2 % 16) * 4 + (b3 \div 64)
                  [] c = 4 -> IF 3 * g + 3 > n THEN Pad ELSE b3 % 64
    IN  [k \in 1..(4 * groups) |-> Char((k - 1) \div 4, ((k - 1) % 4) + 1)]

\* faulty variant: a comparison that stops at the lengths
timingSafeEqual_LengthOnly(a, b) ==
    IF Len(a) # Len(b) THEN [threw |-> TRUE, equal |-> FALSE]
    ELSE [threw |-> FALSE, equal |-> TRUE]

\* crypto.timingSafeEqual(Buffer.from(a), Buffer.from(b)): throws a RangeError
\* when the byte lengths differ, else compares every byte
timingSafeEqual(a, b) ==
    IF Len(a) # Len(b) THEN [threw |-> TRUE, equal |-> FALSE]
    ELSE [threw |-> FALSE, equal |-> \A k \in 1..Len(a) : a[k] = b[k]]

(* Payloads *)

Unparsed == [kind |-> "unparsed", id |-> 0, line_items |-> FALSE]
NullPayload == [kind |-> "null", id |-> 0, line_items |-> FALSE]
EmptyObject == [kind |-> "object", id |-> 0, line_items |-> FALSE]
Order42 == [kind |-> "object", id |-> 42, line_items |-> TRUE]

\* JSON.parse(rawBody): `null`, `{}` and `{o}` (an order: id 42, total_price,
\* line_items) are the JSON texts of the token alphabet; anything else is a
\* SyntaxError
JSONparse(rawBody) ==
    CASE rawBody = <<"null">> -> [threw |-> FALSE, value |-> NullPayload]
      [] rawBody = <<"{", "}">> -> [threw |-> FALSE, value |-> EmptyObject]
      [] rawBody = <<"{", "o", "}">> -> [threw |-> FALSE, value |-> Order42]
      [] OTHER -> [threw |-> TRUE, value |-> Unparsed]

\* the header a holder of `key` sends with `body`
Sign(key, body) == Base64(HmacSha256(key, body))

NoHeader == [present |-> FALSE, value |-> << >>]
Header(s) == [present |-> TRUE, value |-> s]

----------------------------------------------------------------------------
(* verifyShopifyWebhook: the middleware's outcome for one request.         *)
(*   status  the response it sends, 0 when it sends none and calls next()  *)
(*   sig     how the signature check ended                                 *)
(*   parsed  whether JSON.parse was called                                 *)

\* faulty variant: the 401 of a digest mismatch is sent without `return`: the
\* middleware goes on to parse and to call next()
verifyShopifyWebhook_NoReturn(rawBody, hmacHeader) ==
    IF ~hmacHeader.present \/ hmacHeader.value = << >>
    THEN [status |-> 401, sig |-> "missing", parsed |-> FALSE,
          shopifyPayload |-> Unparsed, next |-> FALSE]
    ELSE
      LET hash == Base64(HmacSha256(SHOPIFY_WEBHOOK_SECRET, rawBody))
          cmp == timingSafeEqual(hash, hmacHeader.value)
          json == JSONparse(rawBody)
      IN  IF cmp.threw
          THEN [status |-> 500, sig |-> "threw", parsed |-> FALSE,
                shopifyPayload |-> Unparsed, next |-> FALSE]
          ELSE IF json.threw
          THEN [status |-> 500, sig |-> IF cmp.equal THEN "ok" ELSE "mismatch",
                parsed |-> TRUE, shopifyPayload |-> Unparsed, next |-> FALSE]
          ELSE [status |-> IF cmp.equal THEN 0 ELSE 401,
                sig |-> IF cmp.equal THEN "ok" ELSE "mismatch", parsed |-> TRUE,
                shopifyPayload |-> json.value, next |-> TRUE]

verifyShopifyWebhook(rawBody, hmacHeader) ==
    IF ~hmacHeader.present \/ hmacHeader.value = << >>
    THEN [status |-> 401, sig |-> "missing", parsed |-> FALSE,
          shopifyPayload |-> Unparsed, next |-> FALSE]
    ELSE
      LET hash == Base64(HmacSha256(SHOPIFY_WEBHOOK_SECRET, rawBody))
          cmp == timingSafeEqual(hash, hmacHeader.value)
          json == JSONparse(rawBody)
      IN  IF cmp.threw
          THEN [status |-> 500, sig |-> "threw", parsed |-> FALSE,
                shopifyPayload |-> Unparsed, next |-> FALSE]
          ELSE IF ~cmp.equal
          THEN [status |-> 401, sig |-> "mismatch", parsed |-> FALSE,
                shopifyPayload |-> Unparsed, next |-> FALSE]
          ELSE IF json.threw
          THEN [status |-> 500, sig |-> "ok", parsed |-> TRUE,
                shopifyPayload |-> Unparsed, next |-> FALSE]
          ELSE [status |-> 0, sig |-> "ok", parsed |-> TRUE,
                shopifyPayload |-> json.value, next |-> TRUE]

(* The verifier on its own: every body of up to MaxBodyLen tokens, signed   *)
(* with either key, then altered in one token or not, with the header as   *)
(* signed, altered in one character, cut, extended, empty or absent.       *)

RECURSIVE SeqsOfLen(_)
SeqsOfLen(n) ==
    IF n = 0 THEN {<< >>}
    ELSE {Append(s, t) : s \in SeqsOfLen(n - 1), t \in Tokens}

Bodies == UNION {SeqsOfLen(n) : n \in 1..MaxBodyLen}

\* the sequences that differ from s at exactly one position, by a value of alphabet
OneOff(s, alphabet) ==
    {[s EXCEPT ![p] = c] : p \in DOMAIN s, c \in alphabet} \ {s}

HeaderVariants(h) ==
    {NoHeader, Header(<< >>), Header(h),
     Header(SubSeq(h, 1, Len(h) - 1)), Header(Append(h, Pad))}
    \cup {Header([h EXCEPT ![p] = (h[p] + 1) % 64]) : p \in DOMAIN h}

NoInput == [signed |-> << >>, key |-> ForeignKey, body |-> << >>, hmacHeader |-> NoHeader]
Idle == [status |-> 0, sig |-> "idle", parsed |-> FALSE,
         shopifyPayload |-> Unparsed, next |-> FALSE]

InitVerify ==
    /\ \E sb \in Bodies, k \in Keys :
         \E b \in {sb} \cup OneOff(sb, Tokens), h \in HeaderVariants(Sign(k, sb)) :
            vin = [signed |-> sb, key |-> k, body |-> b, hmacHeader |-> h]
    /\ vout = Idle
    /\ reqs = << >>
    /\ jobs = << >>
    /\ workers = [w \in 1..Workers |-> 0]
    /\ now = 0
    /\ alerts = << >>
    /\ Mounted

Verify ==
    /\ vout = Idle
    /\ vout' = verifyShopifyWebhook(vin.body, vin.hmacHeader)
    /\ UNCHANGED <<reqs, jobs, workers, now, alerts, vin, listVars>>

SpecVerify == InitVerify /\ [][Verify]_vars

----------------------------------------------------------------------------
(* The ingestion endpoint *)

Topics == {"orders/create", "orders/updated", "orders/paid",
           "orders/fulfilled", "app/uninstalled"}
ShopDomain == "shop.myshopify.com"

OrderBody == <<"{", "o", "}">>
EmptyBody == <<"{", "}">>
NullBody == <<"null">>
BrokenBody == <<"{", "o">>

\* the deliveries the model sends: every topic with a well-signed order, and
\* for orders/create the other bodies and the ways a signature can be wrong
Deliveries ==
    {[body |-> OrderBody, hmacHeader |-> Header(Sign(SHOPIFY_WEBHOOK_SECRET, OrderBody)),
      topic |-> t] : t \in Topics}
    \cup
    {[body |-> b, hmacHeader |-> Header(Sign(SHOPIFY_WEBHOOK_SECRET, b)),
      topic |-> "orders/create"] : b \in {EmptyBody, NullBody, BrokenBody}}
    \cup
    {[body |-> OrderBody, hmacHeader |-> h, topic |-> "orders/create"] :
        h \in {NoHeader,
               Header(Sign(ForeignKey, OrderBody)),
               Header(SubSeq(Sign(SHOPIFY_WEBHOOK_SECRET, OrderBody), 1, 43))}}
    \cup
    \* a body altered after it was signed
    {[body |-> EmptyBody, hmacHeader |-> Header(Sign(SHOPIFY_WEBHOOK_SECRET, OrderBody)),
      topic |-> "orders/create"]}

\* faulty variant: the 200 is sent only after processWebhookAsync has returned
RouteHandler_AckAfterProcessing(payload) ==
    IF payload.kind = "null"
    THEN [status |-> << >>, pc |-> "done", enqueue |-> "none"]
    ELSE [status |-> << >>, pc |-> "adding", enqueue |-> "pending"]

\* The route handler up to its await: payload.id is read for the log line
\* (a TypeError on null, caught and logged, nothing sent), the 200 is sent,
\* and processWebhookAsync is called.
RouteHandler(payload) ==
    IF payload.kind = "null"
    THEN [status |-> << >>, pc |-> "done", enqueue |-> "none"]
    ELSE [status |-> <<200>>, pc |-> "adding", enqueue |-> "pending"]

\* faulty variant: topic and shopDomain change places in the job data
processWebhookAsync_SwappedData(payload, topic, shopDomain) ==
    [name |-> "process-order",
     data |-> [payload |-> payload, topic |-> shopDomain, shopDomain |-> topic],
     opts |-> [attempts |-> MAX_RETRIES,
               backoff |-> [type |-> "exponential", delay |-> INITIAL_RETRY_DELAY],
               removeOnComplete |-> FALSE,
               removeOnFail |-> FALSE]]

\* faulty variant: the job is given one attempt more than MAX_RETRIES
processWebhookAsync_OneMoreAttempt(payload, topic, shopDomain) ==
    [name |-> "process-order",
     data |-> [payload |-> payload, topic |-> topic, shopDomain |-> shopDomain],
     opts |-> [attempts |-> MAX_RETRIES + 1,
               backoff |-> [type |-> "exponential", delay |-> INITIAL_RETRY_DELAY],
               removeOnComplete |-> FALSE,
               removeOnFail |-> FALSE]]

\* faulty variant: the backoff type is 'fixed'
processWebhookAsync_FixedBackoff(payload, topic, shopDomain) ==
    [name |-> "process-order",
     data |-> [payload |-> payload, topic |-> topic, shopDomain |-> shopDomain],
     opts |-> [attempts |-> MAX_RETRIES,
               backoff |-> [type |-> "fixed", delay |-> INITIAL_RETRY_DELAY],
               removeOnComplete |-> FALSE,
               removeOnFail |-> FALSE]]

\* faulty variant: the backoff is given no delay
processWebhookAsync_NoDelay(payload, topic, shopDomain) ==
    [name |-> "process-order",
     data |-> [payload |-> payload, topic |-> topic, shopDomain |-> shopDomain],
     opts |-> [attempts |-> MAX_RETRIES,
               backoff |-> [type |-> "exponential", delay |-> 0],
               removeOnComplete |-> FALSE,
               removeOnFail |-> FALSE]]

\* faulty variant: the backoff delay has the wrong sign
processWebhookAsync_NegativeDelay(payload, topic, shopDomain) ==
    [name |-> "process-order",
     data |-> [payload |-> payload, topic |-> topic, shopDomain |-> shopDomain],
     opts |-> [attempts |-> MAX_RETRIES,
               backoff |-> [type |-> "exponential", delay |-> 0 - INITIAL_RETRY_DELAY],
               removeOnComplete |-> FALSE,
               removeOnFail |-> FALSE]]

\* faulty variant: completed jobs are dropped from the queue
processWebhookAsync_RemoveOnComplete(payload, topic, shopDomain) ==
    [name |-> "process-order",
     data |-> [payload |-> payload, topic |-> topic, shopDomain |-> shopDomain],
     opts |-> [attempts |-> MAX_RETRIES,
               backoff |-> [type |-> "exponential", delay |-> INITIAL_RETRY_DELAY],
               removeOnComplete |-> TRUE,
               removeOnFail |-> FALSE]]

\* what processWebhookAsync hands to orderProcessingQueue.add
\* (receivedAt is not modelled)
processWebhookAsync(payload, topic, shopDomain) ==
    [name |-> "process-order",
     data |-> [payload |-> payload, topic |-> topic, shopDomain |-> shopDomain],
     opts |-> [attempts |-> MAX_RETRIES,
               backoff |-> [type |-> "exponential", delay |-> INITIAL_RETRY_DELAY],
               removeOnComplete |-> FALSE,
               removeOnFail |-> FALSE]]

PostWebhook(d) ==
    /\ Len(reqs) < MaxRequests
    /\ LET v == verifyShopifyWebhook(d.body, d.hmacHeader)
           h == RouteHandler(v.shopifyPayload)
       IN  reqs' = Append(reqs,
                [body |-> d.body, hmacHeader |-> d.hmacHeader, topic |-> d.topic,
                 shopDomain |-> ShopDomain,
                 sig |-> v.sig, parsed |-> v.parsed,
                 shopifyPayload |-> v.shopifyPayload,
                 status |-> (IF v.status # 0 THEN <<v.status>> ELSE << >>)
                            \o (IF v.next THEN h.status ELSE << >>),
                 pc |-> IF v.next THEN h.pc ELSE "done",
                 enqueue |-> IF v.next THEN h.enqueue ELSE "none"])
    /\ UNCHANGED <<jobs, workers, now, alerts, vin, vout, listVars>>

----------------------------------------------------------------------------
(* The queue ('./queue-system'): job table, dequeue, retry scheduling *)

NoError == "none"
NoResult == [success |-> FALSE, orderId |-> 0]
\* no attempt has ended yet
NoAttempt == [handler |-> "none", outcome |-> "none", warned |-> FALSE]
Never == 0 - 1

\* Queue.add: a new Pending job, attemptCount 0, eligible at once
NewJob(args, req) ==
    [id |-> Len(jobs) + 1, name |-> args.name, data |-> args.data, opts |-> args.opts,
     state |-> "Pending", attemptCount |-> 0, nextEligibleAt |-> now,
     lastError |-> NoError, returnvalue |-> NoResult, removed |-> FALSE,
     \* history: the request it came from, when the attempt failed that the
     \* latest retry was scheduled for, and what the switch did in the last attempt
     req |-> req, failedAt |-> Never, lastAttempt |-> NoAttempt]

\* orderProcessingQueue.add resolves: the job is in the queue
AddResolves(i) ==
    /\ i \in DOMAIN reqs
    /\ reqs[i].pc = "adding"
    /\ jobs' = Append(jobs,
            NewJob(processWebhookAsync(reqs[i].shopifyPayload, reqs[i].topic,
                                       reqs[i].shopDomain), i))
    /\ reqs' = [reqs EXCEPT ![i].pc = "done", ![i].enqueue = "ok"]
    /\ UNCHANGED <<workers, now, alerts, vin, vout, listVars>>

\* orderProcessingQueue.add rejects: processWebhookAsync logs and rethrows,
\* the route handler's catch logs; the response already sent stands
AddRejects(i) ==
    /\ i \in DOMAIN reqs
    /\ reqs[i].pc = "adding"
    /\ reqs' = [reqs EXCEPT ![i].pc = "done", ![i].enqueue = "failed"]
    /\ UNCHANGED <<jobs, workers, now, alerts, vin, vout, listVars>>

\* job.attemptsMade as the processor reads it: the attempts before this one
attemptsMade(job) ==
    IF job.state = "Running" THEN job.attemptCount - 1 ELSE job.attemptCount

Running == {j \in DOMAIN jobs : jobs[j].state = "Running"}

\* faulty variant: the dequeue does not look at the job's state (two loops
\* reading "Pending" before either writes "Running")
DequeueReady_NoStateCheck(w, j) ==
    /\ j \in DOMAIN jobs
    /\ workers[w] = 0
    /\ jobs[j].state \in {"Pending", "Running"}
    /\ jobs[j].nextEligibleAt <= now
    /\ jobs' = [jobs EXCEPT ![j].state = "Running",
                            ![j].attemptCount = @ + 1]
    /\ workers' = [workers EXCEPT ![w] = j]
    /\ UNCHANGED <<reqs, now, alerts, vin, vout, listVars>>

\* dequeueReady, called by an idle worker loop: one Pending job whose time
\* has come goes to Running, its attemptCount incremented, in one step. Idle
\* loops are interchangeable, so the lowest-numbered one is the one that calls.
DequeueReady(w, j) ==
    /\ j \in DOMAIN jobs
    /\ workers[w] = 0
    /\ \A v \in 1..(w - 1) : workers[v] # 0
    /\ jobs[j].state = "Pending"
    /\ jobs[j].nextEligibleAt <= now
    /\ jobs' = [jobs EXCEPT ![j].state = "Running",
                            ![j].attemptCount = @ + 1]
    /\ workers' = [workers EXCEPT ![w] = j]
    /\ UNCHANGED <<reqs, now, alerts, vin, vout, listVars>>

RECURSIVE Pow2(_)
Pow2(n) == IF n <= 0 THEN 1 ELSE 2 * Pow2(n - 1)

\* the retry scheduler's verdict on a Running job whose attempt ended
markSucceeded(job, result) ==
    [job EXCEPT !.state = "Succeeded", !.returnvalue = result,
                !.removed = job.opts.removeOnComplete]

\* the delay before the retry that follows failed attempt number n
BackoffDelay(opts, n) ==
    IF opts.backoff.type = "exponential"
    THEN opts.backoff.delay * Pow2(n - 1)
    ELSE opts.backoff.delay

markFailed(job, error) ==
    IF job.attemptCount < job.opts.attempts
    THEN [job EXCEPT !.state = "Pending", !.lastError = error, !.failedAt = now,
                     !.nextEligibleAt = now + BackoffDelay(job.opts, job.attemptCount)]
    ELSE [job EXCEPT !.state = "Exhausted", !.lastError = error,
                     !.removed = job.opts.removeOnFail]

----------------------------------------------------------------------------
(* The processor of 'process-order' and the handlers *)

\* syncOrderToInternalSystem
maxRetries == 3

\* what one pass through the try block can end with: it reaches `return true`,
\* or something in it throws an error with one of these messages
SyncFailures == {"ECONNRESET", "HTTP 503"}
TryOutcomes == [1..maxRetries -> {"ok"} \cup SyncFailures]

\* `Failed to sync after ${maxRetries} attempts: ${lastError.message}`
FailedToSync(message) ==
    CASE message = "ECONNRESET" -> "Failed to sync after 3 attempts: ECONNRESET"
      [] message = "HTTP 503" -> "Failed to sync after 3 attempts: HTTP 503"
      [] OTHER -> "Failed to sync after 3 attempts: undefined"

\* faulty variant: the loop sleeps after every failure, the last one included
RECURSIVE SyncLoop_SleepAlways(_, _, _, _)
SyncLoop_SleepAlways(i, outcomes, lastError, slept) ==
    IF i >= maxRetries
    THEN [threw |-> TRUE, error |-> FailedToSync(lastError), attempts |-> i,
          slept |-> slept]
    ELSE IF outcomes[i + 1] = "ok"
    THEN [threw |-> FALSE, error |-> "", attempts |-> i + 1, slept |-> slept]
    ELSE SyncLoop_SleepAlways(i + 1, outcomes, outcomes[i + 1],
                              Append(slept, Pow2(i) * 1000))

\* the for loop from iteration i on (i counts from 0 as in the code):
\* outcomes[i + 1] is what the try block of iteration i ends with, lastError
\* the message caught last, slept the delays slept so far
RECURSIVE SyncLoop(_, _, _, _)
SyncLoop(i, outcomes, lastError, slept) ==
    IF i >= maxRetries
    THEN [threw |-> TRUE, error |-> FailedToSync(lastError), attempts |-> i,
          slept |-> slept]
    ELSE IF outcomes[i + 1] = "ok"
    THEN [threw |-> FALSE, error |-> "", attempts |-> i + 1, slept |-> slept]
    ELSE SyncLoop(i + 1, outcomes, outcomes[i + 1],
                  IF i < maxRetries - 1
                  THEN Append(slept, Pow2(i) * 1000)
                  ELSE slept)

syncOrderToInternalSystem(outcomes) == SyncLoop(0, outcomes, "", << >>)

\* what a call to the internal system can end with
Errors == {"ETIMEDOUT"}
Downstream == {"ok"} \cup Errors

\* faulty variant: the items are read from a field the payload does not have
handleOrderCreate_WrongField(payload, d) == "TypeError"

handleOrderCreate(payload, d) ==
    \* payload.line_items.map(...) is evaluated before the sync call
    IF ~payload.line_items THEN "TypeError" ELSE d

handleOrderUpdate(payload, d) == d
handleOrderPaid(payload, d) == d
handleOrderFulfilled(payload, d) == d

\* faulty variant: the + 1 is forgotten
attemptNumber_NoPlusOne(job) == attemptsMade(job)

attemptNumber(job) == attemptsMade(job) + 1

\* faulty variant: a topic without a case of its own is an error
DispatchTopic_DefaultThrows(payload, topic, d) ==
    CASE topic = "orders/create" ->
            [handler |-> "handleOrderCreate", outcome |-> handleOrderCreate(payload, d),
             warned |-> FALSE]
      [] topic = "orders/updated" ->
            [handler |-> "handleOrderUpdate", outcome |-> handleOrderUpdate(payload, d),
             warned |-> FALSE]
      [] topic = "orders/paid" ->
            [handler |-> "handleOrderPaid", outcome |-> handleOrderPaid(payload, d),
             warned |-> FALSE]
      [] topic = "orders/fulfilled" ->
            [handler |-> "handleOrderFulfilled",
             outcome |-> handleOrderFulfilled(payload, d), warned |-> FALSE]
      [] OTHER -> [handler |-> "none", outcome |-> "UnknownTopic", warned |-> TRUE]

\* the switch on the topic: the handler it calls, what that handler ends with
\* ("ok" or the error it throws), and whether 'Unknown webhook topic' is logged
DispatchTopic(payload, topic, d) ==
    CASE topic = "orders/create" ->
            [handler |-> "handleOrderCreate", outcome |-> handleOrderCreate(payload, d),
             warned |-> FALSE]
      [] topic = "orders/updated" ->
            [handler |-> "handleOrderUpdate", outcome |-> handleOrderUpdate(payload, d),
             warned |-> FALSE]
      [] topic = "orders/paid" ->
            [handler |-> "handleOrderPaid", outcome |-> handleOrderPaid(payload, d),
             warned |-> FALSE]
      [] topic = "orders/fulfilled" ->
            [handler |-> "handleOrderFulfilled",
             outcome |-> handleOrderFulfilled(payload, d), warned |-> FALSE]
      [] OTHER -> [handler |-> "none", outcome |-> "ok", warned |-> TRUE]

\* faulty variant: the alert goes out on every failed attempt
processOrder_AlertEveryFailure(job, d) ==
    LET payload == job.data.payload
        called == DispatchTopic(payload, job.data.topic, d)
    IN  IF called.outcome = "ok"
        THEN [threw |-> FALSE, error |-> NoError,
              returnvalue |-> [success |-> TRUE, orderId |-> payload.id],
              alert |-> << >>, called |-> called]
        ELSE [threw |-> TRUE, error |-> called.outcome, returnvalue |-> NoResult,
              called |-> called,
              alert |-> <<[orderId |-> payload.id, error |-> called.outcome,
                           attempts |-> attemptNumber(job),
                           shopDomain |-> job.data.shopDomain]>>]

\* faulty variant: the catch block does not rethrow
processOrder_NoRethrow(job, d) ==
    LET payload == job.data.payload
        called == DispatchTopic(payload, job.data.topic, d)
    IN  IF called.outcome = "ok"
        THEN [threw |-> FALSE, error |-> NoError,
              returnvalue |-> [success |-> TRUE, orderId |-> payload.id],
              alert |-> << >>, called |-> called]
        ELSE [threw |-> FALSE, error |-> NoError, returnvalue |-> NoResult,
              called |-> called,
              alert |-> IF attemptNumber(job) >= MAX_RETRIES
                        THEN <<[orderId |-> payload.id, error |-> called.outcome,
                                attempts |-> attemptNumber(job),
                                shopDomain |-> job.data.shopDomain]>>
                        ELSE << >>]

\* the processor callback on `job`, the internal system answering d:
\*   threw, error   whether it rejects, and with what
\*   returnvalue    what it resolves with
\*   called         what the switch did
\*   alert          what sendFailureAlert was called with
processOrder(job, d) ==
    LET payload == job.data.payload
        called == DispatchTopic(payload, job.data.topic, d)
    IN  IF called.outcome = "ok"
        THEN [threw |-> FALSE, error |-> NoError,
              returnvalue |-> [success |-> TRUE, orderId |-> payload.id],
              alert |-> << >>, called |-> called]
        ELSE [threw |-> TRUE, error |-> called.outcome, returnvalue |-> NoResult,
              called |-> called,
              alert |-> IF attemptNumber(job) >= MAX_RETRIES
                        THEN <<[orderId |-> payload.id, error |-> called.outcome,
                                attempts |-> attemptNumber(job),
                                shopDomain |-> job.data.shopDomain]>>
                        ELSE << >>]

\* the processor call of worker loop w returns or throws, the queue records
\* the result and the loop is free again
Processed(w, d) ==
    /\ workers[w] # 0
    /\ LET j == workers[w]
           r == processOrder(jobs[j], d)
       IN  /\ alerts' = alerts \o r.alert
           /\ jobs' = [jobs EXCEPT ![j] =
                          [(IF r.threw THEN markFailed(@, r.error)
                            ELSE markSucceeded(@, r.returnvalue))
                           EXCEPT !.lastAttempt = r.called]]
    /\ workers' = [workers EXCEPT ![w] = 0]

\* the attempt that worker loop w is running ends
ProcessOrder(w, d) ==
    /\ Processed(w, d)
    /\ UNCHANGED <<reqs, now, vin, vout, listVars>>

\* time passes, to the moment the next delayed job becomes eligible
Delayed == {j \in DOMAIN jobs : jobs[j].state = "Pending" /\ jobs[j].nextEligibleAt > now}

Tick ==
    /\ Delayed # {}
    /\ now' = CHOOSE t \in {jobs[j].nextEligibleAt : j \in Delayed} :
                  \A j \in Delayed : t <= jobs[j].nextEligibleAt
    /\ UNCHANGED <<reqs, jobs, workers, alerts, vin, vout, listVars>>

\* GET /webhooks/jobs/:jobId
GetJob(jobId) ==
    IF jobId \in DOMAIN jobs /\ ~jobs[jobId].removed
    THEN [status |-> 200, state |-> jobs[jobId].state,
          attempts |-> attemptsMade(jobs[jobId]),
          returnvalue |-> jobs[jobId].returnvalue,
          failedReason |-> jobs[jobId].lastError]
    ELSE [status |-> 404, state |-> "none", attempts |-> 0,
          returnvalue |-> NoResult, failedReason |-> NoError]

----------------------------------------------------------------------------
Init ==
    /\ reqs = << >>
    /\ jobs = << >>
    /\ workers = [w \in 1..Workers |-> 0]
    /\ now = 0
    /\ alerts = << >>
    /\ Mounted
    /\ vin = NoInput
    /\ vout = Idle

Next ==
    \/ \E d \in Deliveries : PostWebhook(d)
    \/ \E i \in 1..MaxRequests : AddResolves(i)
    \/ \E i \in 1..MaxRequests : AddRejects(i)
    \/ \E w \in 1..Workers, j \in 1..MaxRequests : DequeueReady(w, j)
    \/ \E w \in 1..Workers, d \in Downstream : ProcessOrder(w, d)
    \/ Tick

Spec == Init /\ [][Next]_vars

\* every step but the arrival of a request
Progress ==
    \/ \E i \in 1..MaxRequests : AddResolves(i) \/ AddRejects(i)
    \/ \E w \in 1..Workers, j \in 1..MaxRequests : DequeueReady(w, j)
    \/ \E w \in 1..Workers, d \in Downstream : ProcessOrder(w, d)
    \/ Tick

\* The queue completes every add and keeps its worker loops running, a handler
\* call returns, and time passes: while any such step is possible, one is
\* eventually taken. Nothing obliges a producer to send a request.
FairSpec == Spec /\ WF_vars(Progress)

\* ProductList alone, from its first render on
InitList == Init

NextList ==
    \/ \E v \in SearchInputs : SearchChange(v)
    \/ ClearSearch
    \/ DebounceFires
    \/ handleNextPage
    \/ handlePrevPage
    \/ \E pageNum \in 1..ceil(30, itemsPerPage) : handlePageClick(pageNum)
    \/ RunFetchEffect
    \/ \E id \in 1..MaxFetches, res \in Responses : Settle(id, res)
    \/ Retry
    \/ \E ms \in Waits : Elapse(ms)

SpecList == InitList /\ [][NextList]_vars

----------------------------------------------------------------------------
(* Properties *)

\* the signature each delivered body has under the shared secret
WireBodies == {d.body : d \in Deliveries}
SignatureOf == [b \in WireBodies |-> Sign(SHOPIFY_WEBHOOK_SECRET, b)]

\* the request carries the signature of its body under the shared secret
GenuineSig(r) ==
    r.hmacHeader.present /\ r.hmacHeader.value = SignatureOf[r.body]

JobsOf(i) == {j \in DOMAIN jobs : jobs[j].req = i}

DiffersAtOne(a, b) ==
    Len(a) = Len(b) /\ Cardinality({p \in DOMAIN a : a[p] # b[p]}) = 1

\* C1: a verified request whose enqueue fails is answered 500 and never 200;
\* a request answered 200 whose handler has finished has its job in the queue.
C1_EnqueueFailureSurfaced ==
    \A i \in DOMAIN reqs :
        /\ reqs[i].enqueue = "failed" => reqs[i].status = <<500>>
        /\ (reqs[i].status = <<200>> /\ reqs[i].pc = "done") => JobsOf(i) # {}

\* C2: a request whose signature header is missing, malformed (a length other
\* than the digest's included) or does not match is answered 401 and with no
\* other status.
C2_EveryFailureAnswers401 ==
    \A i \in DOMAIN reqs :
        ~GenuineSig(reqs[i]) => reqs[i].status = <<401>>

\* one step of a run, as C3 has it
C3_Step ==
    /\ \A i \in DOMAIN reqs' :
          ~GenuineSig(reqs'[i]) =>
              /\ ~reqs'[i].parsed
              /\ reqs'[i].shopifyPayload = Unparsed
              /\ reqs'[i].enqueue = "none"
              /\ reqs'[i].pc = "done"
              /\ \A j \in DOMAIN jobs' : jobs'[j].req # i
    /\ (Len(reqs') > Len(reqs) /\ ~GenuineSig(reqs'[Len(reqs')])) => jobs' = jobs
    /\ (\A i \in DOMAIN reqs' : ~GenuineSig(reqs'[i])) =>
          \A id \in 1..(MaxRequests + 1) : GetJob(id)'.status = 404

\* C3: a request whose signature does not verify is never parsed and adds no
\* job; the step that handles it leaves the job table as it was, and while no
\* request has verified the status query answers 404 for every job id.
C3_UnverifiedLeavesNoTrace == [][C3_Step]_vars

\* a request with a body altered after signing was answered 401, the queue empty
C3_Witness ==
    \E i \in DOMAIN reqs :
        /\ reqs[i].body = EmptyBody
        /\ reqs[i].hmacHeader = Header(Sign(SHOPIFY_WEBHOOK_SECRET, OrderBody))
        /\ reqs[i].status = <<401>>
        /\ jobs = << >>
        /\ GetJob(1).status = 404

\* C4: verification succeeds exactly when the header is
\* Base64(HMAC-SHA256(secret, rawBody)) of the bytes received; a body that
\* differs in one byte from the one signed, or a header that differs in one
\* character from that signature, does not verify.
C4_VerifiedIffSignatureMatches ==
    vout # Idle =>
        /\ (vout.sig = "ok") <=>
              (vin.hmacHeader.present
               /\ vin.hmacHeader.value = Base64(HmacSha256(SHOPIFY_WEBHOOK_SECRET, vin.body)))
        /\ (DiffersAtOne(vin.body, vin.signed)
            /\ vin.hmacHeader = Header(Sign(vin.key, vin.signed))) => vout.sig # "ok"
        /\ (vin.hmacHeader.present
            /\ DiffersAtOne(vin.hmacHeader.value, Sign(SHOPIFY_WEBHOOK_SECRET, vin.body)))
              => vout.sig # "ok"

\* a body altered in one token under the genuine signature of the original
\* was refused
C4_Witness ==
    /\ vout.sig = "mismatch"
    /\ vin.key = SHOPIFY_WEBHOOK_SECRET
    /\ DiffersAtOne(vin.body, vin.signed)
    /\ vin.hmacHeader = Header(Sign(SHOPIFY_WEBHOOK_SECRET, vin.signed))

\* C5: the 200 is sent before the enqueue call returns and before any handler
\* runs: a request whose enqueue is pending or over, and every request that
\* has a job in whatever state, has already been answered 200.
C5_AckBeforeEnqueueReturns ==
    /\ \A i \in DOMAIN reqs :
          reqs[i].enqueue # "none" => reqs[i].status = <<200>>
    /\ \A j \in DOMAIN jobs :
          /\ jobs[j].req \in DOMAIN reqs
          /\ reqs[jobs[j].req].status = <<200>>

\* the 200 is out while the enqueue call has not returned and no job exists
C5_Witness ==
    \E i \in DOMAIN reqs :
        reqs[i].pc = "adding" /\ reqs[i].status = <<200>> /\ JobsOf(i) = {}

\* C6: the jobs in the queue are as many as the verified requests whose
\* enqueue succeeded, one job for each, and each job carries the payload, the
\* topic and the shop domain of its request.
C6_OneJobPerEnqueuedEvent ==
    /\ Len(jobs) = Cardinality({i \in DOMAIN reqs : reqs[i].enqueue = "ok"})
    /\ \A i \in DOMAIN reqs :
          IF reqs[i].enqueue = "ok"
          THEN GenuineSig(reqs[i]) /\ Cardinality(JobsOf(i)) = 1
          ELSE JobsOf(i) = {}
    /\ \A j \in DOMAIN jobs :
          /\ jobs[j].req \in DOMAIN reqs
          /\ jobs[j].data.payload = JSONparse(reqs[jobs[j].req].body).value
          /\ jobs[j].data.topic = reqs[jobs[j].req].topic
          /\ jobs[j].data.shopDomain = reqs[jobs[j].req].shopDomain

\* one verified order was enqueued and is the one job of the queue
C6_Witness ==
    /\ Len(jobs) = 1
    /\ \E i \in DOMAIN reqs :
          reqs[i].enqueue = "ok" /\ jobs[1].req = i /\ jobs[1].data.payload = Order42

\* C7: every request is answered exactly once: never twice, and once its
\* handler has run to its end it has been answered.
C7_ExactlyOneResponse ==
    \A i \in DOMAIN reqs :
        /\ Len(reqs[i].status) <= 1
        /\ reqs[i].pc = "done" => Len(reqs[i].status) = 1

\* C8: a request that passes signature verification is answered with an error
\* status only when its enqueue failed; in particular one whose body is not
\* JSON gets no error status.
C8_MalformedBodyNotSurfaced ==
    \A i \in DOMAIN reqs :
        GenuineSig(reqs[i]) =>
            \A k \in DOMAIN reqs[i].status :
                reqs[i].status[k] >= 400 => reqs[i].enqueue = "failed"

\* one step of a run, as C9 has it
C9_Step ==
    \A j \in DOMAIN jobs :
        /\ j \in DOMAIN jobs'
        /\ LET a == jobs[j]
               b == jobs'[j]
           IN  /\ a.state \in {"Succeeded", "Exhausted"} => b = a
               /\ b.state \in {"Pending", "Running", "Succeeded", "Exhausted"}
               /\ a.state = "Pending" /\ b # a => b.state = "Running"
               /\ a.state = "Running" /\ b # a =>
                     \/ b.state = "Succeeded" /\ b.returnvalue.success
                     \/ /\ b.state = "Pending"
                        /\ a.attemptCount < MAX_RETRIES
                        /\ b.lastError # NoError
                     \/ /\ b.state = "Exhausted"
                        /\ a.attemptCount = MAX_RETRIES
                        /\ b.lastError # NoError

\* C9: a job moves only Pending -> Running -> {Succeeded, Pending, Exhausted};
\* back to Pending only after a failed attempt with attemptCount < 5, to
\* Exhausted only after a failed attempt with attemptCount = 5; a Succeeded or
\* Exhausted job never changes again.
C9_JobTransitions == [][C9_Step]_vars

\* a job ran out of attempts, and it did so on its 5th
C9_Witness ==
    \E j \in DOMAIN jobs :
        jobs[j].state = "Exhausted" /\ jobs[j].attemptCount = MAX_RETRIES

\* one step of a run, as C10 has it
C10_Step ==
    \A j \in DOMAIN jobs' :
        LET b == jobs'[j]
        IN  /\ b.attemptCount \in 0..MAX_RETRIES
            /\ b.state = "Running" =>
                  attemptNumber(b) \in 1..MAX_RETRIES /\ attemptNumber(b) = b.attemptCount
            /\ IF j \notin DOMAIN jobs THEN b.attemptCount = 0
               ELSE IF jobs[j].state = "Pending" /\ b.state = "Running"
               THEN b.attemptCount = jobs[j].attemptCount + 1
               ELSE b.attemptCount = jobs[j].attemptCount

\* C10: attemptCount is 0 for a new job, grows by exactly 1 on each dispatch
\* and on nothing else, and never exceeds 5; the attempt number the processor
\* computes is in 1..5.
C10_AttemptCount == [][C10_Step]_vars

\* a job is on its 5th attempt
C10_Witness ==
    \E j \in DOMAIN jobs :
        jobs[j].state = "Running" /\ attemptNumber(jobs[j]) = MAX_RETRIES

----------------------------------------------------------------------------
(* Retry schedule *)

\* the attempt of job j that was running before this step ended in failure
AttemptFailed(j) ==
    /\ j \in DOMAIN jobs
    /\ jobs[j].state = "Running"
    /\ jobs'[j].state \in {"Pending", "Exhausted"}

\* the delays the schedule may ask for, in ms, after failed attempts 1..4
C11_Delays == <<1000, 2000, 4000, 8000>>

\* one step of a run, as C11 has it
C11_Step ==
    \A j \in DOMAIN jobs :
        AttemptFailed(j) =>
            LET k == jobs[j].attemptCount
                b == jobs'[j]
            IN  IF k \in 1..4
                THEN /\ b.state = "Pending"
                     /\ b.nextEligibleAt = now + C11_Delays[k]
                     /\ C11_Delays[k] = INITIAL_RETRY_DELAY * Pow2(k - 1)
                ELSE /\ k = 5
                     /\ b.state = "Exhausted"
                     /\ b.nextEligibleAt = jobs[j].nextEligibleAt

\* C11: when every attempt of a job fails, the delay scheduled after failed
\* attempt k is exactly initialDelay * 2^(k-1) for k = 1..4, that is 1 s, 2 s,
\* 4 s and 8 s, with no jitter; the 5th failure schedules nothing and leaves
\* the job Exhausted.
C11_BackoffSchedule == [][C11_Step]_vars

\* the 4th attempt has failed and the 5th is due 8 s later
C11_Witness ==
    \E j \in DOMAIN jobs :
        /\ jobs[j].state = "Pending"
        /\ jobs[j].attemptCount = 4
        /\ jobs[j].nextEligibleAt = jobs[j].failedAt + 8000

\* one step of a run, as C11 was first put: a delay after each of attempts 1..5
C11_StepEveryAttempt ==
    \A j \in DOMAIN jobs :
        AttemptFailed(j) =>
            LET k == jobs[j].attemptCount
            IN  /\ k \in 1..5
                /\ jobs'[j].nextEligibleAt = now + INITIAL_RETRY_DELAY * Pow2(k - 1)
                /\ k = 5 => jobs'[j].state = "Exhausted"

\* C11 as first put: the deltas are 1 s, 2 s, 4 s, 8 s and 16 s after attempts
\* 1..5, the job being Exhausted after the 5th failure.
C11_DelayAfterEveryAttempt == [][C11_StepEveryAttempt]_vars

----------------------------------------------------------------------------
(* Alerting *)

Exhausted == {j \in DOMAIN jobs : jobs[j].state = "Exhausted"}

\* the notification sendFailureAlert got is the one job j's last failure calls for
AlertIsFor(a, j) ==
    /\ a.orderId = jobs[j].data.payload.id
    /\ a.error = jobs[j].lastError
    /\ a.shopDomain = jobs[j].data.shopDomain
    /\ a.attempts = jobs[j].attemptCount

\* C12: the alerting sink has received exactly one notification per Exhausted
\* job and none for any other job (Pending, Running or Succeeded, whatever
\* failed before); each notification reports attempts = 5 with the order id,
\* the error and the shop domain of a job that is Exhausted after 5 failures.
C12_OneAlertPerExhaustedJob ==
    /\ Len(alerts) = Cardinality(Exhausted)
    /\ \A n \in DOMAIN alerts :
          /\ alerts[n].attempts = 5
          /\ alerts[n].error # NoError
          /\ \E j \in Exhausted : AlertIsFor(alerts[n], j)
    /\ \A j \in Exhausted :
          /\ jobs[j].attemptCount = 5
          /\ \E n \in DOMAIN alerts : AlertIsFor(alerts[n], j)

\* order 42 failed five times and the sink was told once
C12_Witness ==
    /\ Len(alerts) = 1
    /\ alerts[1] = [orderId |-> 42, error |-> "ETIMEDOUT", attempts |-> 5,
                    shopDomain |-> ShopDomain]
    /\ Exhausted # {}

----------------------------------------------------------------------------
(* Worker loops *)

\* the worker loops executing job j
Holders(j) == {w \in DOMAIN workers : workers[w] = j}

\* one step of a run, as C13 has it
C13_Step ==
    \A j \in DOMAIN jobs' :
        /\ Cardinality({w \in DOMAIN workers' : workers'[w] = j}) =
               IF jobs'[j].state = "Running" THEN 1 ELSE 0
        /\ (j \in DOMAIN jobs /\ jobs'[j].attemptCount # jobs[j].attemptCount) =>
               /\ jobs[j].state = "Pending"
               /\ Holders(j) = {}
               /\ jobs[j].attemptCount > 0 =>
                      jobs[j].lastAttempt.outcome = jobs[j].lastError

----------------------------------------------------------------------------
(* Dispatch *)

\* one step of a run, as C14 has it
C14_Step ==
    \A j \in DOMAIN jobs :
        (jobs[j].state # "Running" /\ jobs'[j].state = "Running") =>
            /\ jobs[j].state = "Pending"
            /\ now >= jobs[j].nextEligibleAt
            /\ jobs[j].attemptCount >= 1 =>
                  now >= jobs[j].failedAt
                            + INITIAL_RETRY_DELAY * Pow2(jobs[j].attemptCount - 1)

\* C14: a job is dispatched only when it is Pending and the clock has reached
\* its nextEligibleAt; a retry after failed attempt k starts no sooner than
\* INITIAL_RETRY_DELAY * 2^(k-1) ms after that failure.
C14_DispatchOnlyWhenEligible == [][C14_Step]_vars

\* the 3rd attempt is running, 2 s or more after the 2nd failed
C14_Witness ==
    \E j \in DOMAIN jobs :
        /\ jobs[j].state = "Running"
        /\ jobs[j].attemptCount = 3
        /\ now >= jobs[j].failedAt + 2000

----------------------------------------------------------------------------
(* Topics *)

KnownTopics == {"orders/create", "orders/updated", "orders/paid", "orders/fulfilled"}

\* the handler each recognised topic is for
C15_HandlerFor(topic) ==
    CASE topic = "orders/create" -> "handleOrderCreate"
      [] topic = "orders/updated" -> "handleOrderUpdate"
      [] topic = "orders/paid" -> "handleOrderPaid"
      [] topic = "orders/fulfilled" -> "handleOrderFulfilled"

\* C15: a job with an unrecognised topic calls no handler, logs the unknown
\* topic, succeeds on its first attempt and is never retried, failed or
\* alerted; an attempt of a job with a recognised topic calls the handler of
\* that topic and no other.
C15_TopicDispatch ==
    \A j \in DOMAIN jobs :
        LET job == jobs[j]
            topic == job.data.topic
            ended == job.lastAttempt # NoAttempt
        IN  IF topic \notin KnownTopics
            THEN /\ job.state \in {"Pending", "Running", "Succeeded"}
                 /\ job.attemptCount = (IF job.state = "Pending" THEN 0 ELSE 1)
                 /\ job.lastError = NoError
                 /\ ended <=> job.state = "Succeeded"
                 /\ ended => job.lastAttempt =
                                [handler |-> "none", outcome |-> "ok", warned |-> TRUE]
                 /\ job.state = "Running" =>
                        \A d \in Downstream :
                            /\ ~processOrder(job, d).threw
                            /\ processOrder(job, d).alert = << >>
            ELSE /\ ended => /\ job.lastAttempt.handler = C15_HandlerFor(topic)
                             /\ ~job.lastAttempt.warned
                 /\ job.state = "Running" =>
                        \A d \in Downstream :
                            processOrder(job, d).called.handler = C15_HandlerFor(topic)

\* an event of a topic the switch has no case for was processed
C15_Witness ==
    \E j \in DOMAIN jobs :
        /\ jobs[j].data.topic = "app/uninstalled"
        /\ jobs[j].state = "Succeeded"
        /\ jobs[j].attemptCount = 1
        /\ jobs[j].lastAttempt.warned

----------------------------------------------------------------------------
(* Handler errors *)

\* one step of a run, as C16 has it
C16_Step ==
    \A w \in DOMAIN workers :
        LET j == workers[w]
        IN  (j # 0 /\ jobs'[j] # jobs[j]) =>
                LET b == jobs'[j]
                    thrown == b.lastAttempt.outcome
                IN  /\ thrown # "ok" =>
                          /\ b.lastError = thrown
                          /\ b.returnvalue = NoResult
                          /\ IF b.attemptCount < MAX_RETRIES
                             THEN b.state = "Pending" /\ b.nextEligibleAt > now
                             ELSE b.state = "Exhausted"
                    /\ thrown = "ok" => b.state = "Succeeded"
                    /\ workers'[w] = 0
                    /\ \A v \in DOMAIN workers \ {w} : workers'[v] = workers[v]
                    /\ \A k \in DOMAIN jobs \ {j} : jobs'[k] = jobs[k]

----------------------------------------------------------------------------
(* Status query *)

\* job ids a client may ask about: those handed out so far and one more
QueryIds == 0..(MaxRequests + 1)

----------------------------------------------------------------------------
(* An order, end to end *)

\* request i is a correctly signed orders/create for order 42
C18_SignedOrderCreate(i) ==
    /\ i \in DOMAIN reqs
    /\ GenuineSig(reqs[i])
    /\ reqs[i].topic = "orders/create"
    /\ reqs[i].shopifyPayload = Order42

\* its job is in the queue
C18_Enqueued(i) == C18_SignedOrderCreate(i) /\ reqs[i].enqueue = "ok"

\* the job of request i succeeded at its first execution
C18_SucceededAtOnce(i) ==
    \E j \in JobsOf(i) :
        /\ jobs[j].state = "Succeeded"
        /\ jobs[j].attemptCount = 1
        /\ jobs[j].lastError = NoError

\* the internal system failed an attempt of the job of request i
C18_SyncFailed(i) == \E j \in JobsOf(i) : jobs[j].lastError \in Errors

C18_Safe ==
    \A i \in DOMAIN reqs :
        C18_SignedOrderCreate(i) =>
            /\ reqs[i].status = <<200>>
            /\ C18_Enqueued(i) =>
                  /\ Cardinality(JobsOf(i)) = 1
                  /\ \A j \in JobsOf(i) :
                        /\ jobs[j].data.payload.id = 42
                        /\ jobs[j].attemptCount = 0 => jobs[j].state = "Pending"
                        /\ jobs[j].lastError = NoError =>
                              /\ jobs[j].attemptCount <= 1
                              /\ j \notin Exhausted
                              /\ \A n \in DOMAIN alerts :
                                    \E k \in Exhausted : AlertIsFor(alerts[n], k)
                              /\ jobs[j].state = "Succeeded" =>
                                    jobs[j].returnvalue =
                                        [success |-> TRUE, orderId |-> 42]

\* C18: a correctly signed orders/create request is answered 200; once
\* enqueued it has exactly one job, for its order id, Pending until first
\* dispatched; as long as the downstream sync does not fail, the job is
\* executed at most once, raises no alert, and a worker eventually moves it to
\* Succeeded with attemptCount = 1.
C18_OrderCreateSucceedsAtOnce ==
    /\ []C18_Safe
    /\ \A i \in 1..MaxRequests :
          C18_Enqueued(i) ~> (C18_SucceededAtOnce(i) \/ C18_SyncFailed(i))

\* the order went through at the first execution, nobody was alerted
C18_Witness ==
    /\ C18_Enqueued(1)
    /\ C18_SucceededAtOnce(1)
    /\ reqs[1].status = <<200>>
    /\ alerts = << >>

----------------------------------------------------------------------------
(* Eligibility times *)

\* one step of a run, as C19 has it
C19_Step ==
    \A j \in DOMAIN jobs :
        /\ jobs'[j].nextEligibleAt >= jobs[j].nextEligibleAt
        /\ AttemptFailed(j) /\ jobs'[j].state = "Pending" =>
              jobs'[j].nextEligibleAt > jobs[j].nextEligibleAt

\* C19: a job's nextEligibleAt never decreases, and every retry scheduled
\* moves it strictly later.
C19_NextEligibleAtMonotonic == [][C19_Step]_vars

\* three retries were scheduled, 1 s, 2 s and 4 s after failures at 0, 1 and 3 s
C19_Witness ==
    \E j \in DOMAIN jobs :
        /\ jobs[j].attemptCount = 3
        /\ jobs[j].state = "Pending"
        /\ jobs[j].nextEligibleAt = 7000

----------------------------------------------------------------------------
(* ProductList: requests and what is shown *)

\* the request issued last
Latest == fetches[Len(fetches)]

\* what is on screen is what the request issued last ended with
C20_ShowsLatest ==
    /\ \A id \in 1..(Len(fetches) - 1) : fetches[id].aborted \/ fetches[id].settled
    /\ ui.status = "success" =>
          /\ Latest.settled /\ ~Latest.aborted /\ Latest.res.kind = "ok"
          /\ ui.products.req = Len(fetches)
          /\ ui.products.count \in 0..12
          /\ ui.products.count <= Max(0, Latest.res.total - 12 * (Latest.page - 1))
          /\ ui.totalPages >= 1
          /\ ui.totalPages * 12 >= Latest.res.total
          /\ ui.totalPages > 1 => (ui.totalPages - 1) * 12 < Latest.res.total
    /\ ui.status = "error" =>
          /\ Latest.settled /\ ~Latest.aborted /\ Thrown(Latest.res) # NotThrown
          /\ ui.error # null

\* one step of a run, as C20 has it
C20_Step ==
    /\ C20_ShowsLatest'
    /\ \A id \in DOMAIN fetches :
          (~fetches[id].settled /\ fetches'[id].settled
             /\ (fetches[id].aborted \/ id < Len(fetches))) => ui' = ui

\* C20: when the page or the debounced term changes, the request issued
\* before is aborted unless it has ended; in the 'success' state products and
\* totalPages are those of the response to the request issued last, in the
\* 'error' state the error is that request's; the end of an aborted or
\* superseded request changes nothing of the component's state.
C20_LatestRequestWins == [][C20_Step]_vars

\* an aborted request has ended, and the list shows the data of a later one
C20_Witness ==
    /\ ui.status = "success"
    /\ ui.products.req = Len(fetches)
    /\ \E id \in 1..(Len(fetches) - 1) :
          fetches[id].aborted /\ fetches[id].settled /\ fetches[id].res.kind = "ok"

----------------------------------------------------------------------------
(* ProductList: the error screen *)

\* one step of a run, as C21 has it
C21_Step ==
    (~retried /\ retried') =>
        /\ Len(fetches') = Len(fetches) + 1
        /\ fetches'[Len(fetches')].page = ui.currentPage
        /\ fetches'[Len(fetches')].term = ui.debouncedSearch
        /\ ui'.status # "error"

\* C21: a click on 'Reintentar' in the 'error' state issues a new request for
\* the current page and search term, and the status leaves 'error'.
C21_RetryRefetches == [][C21_Step]_vars

----------------------------------------------------------------------------
(* ProductList: search and pagination *)

\* C22: the first request that carries a new search term, one that differs
\* from the term of the request before it, is issued for page 1 (skip = 0).
C22_NewTermStartsAtPageOne ==
    \A id \in 2..Len(fetches) :
        fetches[id].term # fetches[id - 1].term =>
            /\ fetches[id].page = 1
            /\ (fetches[id].page - 1) * itemsPerPage = 0

----------------------------------------------------------------------------
(* ProductList: the request URL, read as a server reads it *)

\* the place of the first t in s, 0 when there is none
IndexOf(s, t) ==
    IF \E i \in DOMAIN s : s[i] = t
    THEN CHOOSE i \in DOMAIN s : s[i] = t /\ \A k \in 1..(i - 1) : s[k] # t
    ELSE 0

\* what precedes the first '?', and what follows it
PathOf(url) ==
    IF IndexOf(url, "?") = 0 THEN url ELSE SubSeq(url, 1, IndexOf(url, "?") - 1)
QueryOf(url) ==
    IF IndexOf(url, "?") = 0 THEN << >>
    ELSE SubSeq(url, IndexOf(url, "?") + 1, Len(url))

\* the pieces of s between the separators t
RECURSIVE Split(_, _)
Split(s, t) ==
    IF IndexOf(s, t) = 0 THEN <<s>>
    ELSE <<SubSeq(s, 1, IndexOf(s, t) - 1)>>
             \o Split(SubSeq(s, IndexOf(s, t) + 1, Len(s)), t)

\* the query parameters: key=value pieces separated by '&'
ParamsOf(url) ==
    LET pieces == Split(QueryOf(url), "&")
    IN  {[key |-> SubSeq(pieces[i], 1, IndexOf(pieces[i], "=") - 1),
          value |-> SubSeq(pieces[i], IndexOf(pieces[i], "=") + 1, Len(pieces[i]))] :
            i \in {k \in DOMAIN pieces : IndexOf(pieces[k], "=") > 0}}

\* C23: every request carries limit = 12 and skip = (currentPage - 1) * 12 as
\* query parameters of their own; a search request goes to {apiUrl}/search and
\* carries q equal to the debounced term besides, in a single query string.
C23_RequestForm ==
    \A id \in DOMAIN fetches :
        LET f == fetches[id]
            paging == {[key |-> <<"limit">>, value |-> <<"12">>],
                       [key |-> <<"skip">>, value |-> <<ToString(12 * (f.page - 1))>>]}
        IN  IF f.term = << >>
            THEN /\ PathOf(f.url) = <<"apiUrl">>
                 /\ ParamsOf(f.url) = paging
            ELSE /\ PathOf(f.url) = <<"apiUrl", "/search">>
                 /\ ParamsOf(f.url) =
                       paging \cup {[key |-> <<"q">>, value |-> encodeURIComponent(f.term)]}

\* C24: a keystroke by itself issues no request; the debounced term changes
\* only when 400 ms have passed since the last keystroke, and becomes the
\* trimmed text of the input; the request the change causes carries that term.
C24_Step ==
    /\ ui'.searchTerm # ui.searchTerm => fetches' = fetches
    /\ ui'.debouncedSearch # ui.debouncedSearch =>
          /\ timer.remaining = 0
          /\ ui'.debouncedSearch = trim(ui.searchTerm)
    /\ (dirty /\ ~dirty' /\ ui'.searchTerm = ui.searchTerm) =>
          /\ Len(fetches') > Len(fetches)
          /\ fetches'[Len(fetches')].term = trim(ui.searchTerm)
C24_KeystrokeIssuesNoRequest == [][C24_Step]_vars

----------------------------------------------------------------------------
(* The paginator's window, as a function of its two dependencies *)

MaxPages == 8

InitPages ==
    /\ \E c \in 1..MaxPages, t \in 1..MaxPages :
          vin = [currentPage |-> c, totalPages |-> t]
    /\ vout = Idle
    /\ reqs = << >>
    /\ jobs = << >>
    /\ workers = [w \in 1..Workers |-> 0]
    /\ now = 0
    /\ alerts = << >>
    /\ Mounted

\* the useMemo callback runs for the current dependencies
ComputePages ==
    /\ vout = Idle
    /\ vout' = [pages |-> pageNumbers(vin.currentPage, vin.totalPages)]
    /\ UNCHANGED <<reqs, jobs, workers, now, alerts, vin, listVars>>

SpecPages == InitPages /\ [][ComputePages]_vars

\* C25: for 1 <= currentPage <= totalPages the page numbers are consecutive
\* integers inside 1..totalPages, min(5, totalPages) of them, and currentPage
\* is one of them.
C25_PageWindow ==
    (vout # Idle /\ vin.currentPage <= vin.totalPages) =>
        LET pages == vout.pages
        IN  /\ Len(pages) = Min(5, vin.totalPages)
            /\ \A i \in DOMAIN pages :
                  /\ pages[i] \in 1..vin.totalPages
                  /\ pages[i] = pages[1] + i - 1
            /\ \E i \in DOMAIN pages : pages[i] = vin.currentPage

\* the window had to be moved back from the last page
C25_Witness ==
    /\ vout # Idle
    /\ vin.totalPages > 5
    /\ vin.currentPage = vin.totalPages
    /\ Len(vout.pages) = 5
    /\ vout.pages[5] = vin.currentPage

----------------------------------------------------------------------------
(* ProductList: the three states *)

\* what holds of status and error whatever a completed request has to do to
\* count as successful
C26_Base ==
    /\ ui.status \in {"loading", "error", "success"}
    /\ ~Latest.settled => ui.status = "loading"
    /\ ui.status = "loading" => ~Latest.settled
    /\ ui.status # "error" => ui.error = null
    /\ ui.status = "error" => ui.error \notin {null, ""}

----------------------------------------------------------------------------
(* ProductList: the page the list is on *)

\* a page change stays inside 1..totalPages
C27_Moves ==
    /\ ui'.currentPage > ui.currentPage => ui'.currentPage <= ui.totalPages
    /\ ui'.currentPage < ui.currentPage => ui'.currentPage >= 1
C27_MovesInRange == [][C27_Moves]_vars

\* C27: totalPages is at least 1; whenever the status is success, currentPage
\* is between 1 and totalPages; the next control never goes past totalPages
\* and the previous control never goes below 1.
C27_InRange ==
    /\ ui.totalPages >= 1
    /\ ui.currentPage >= 1
    /\ ui.status = "success" => ui.currentPage <= ui.totalPages
C27_Step == C27_InRange' /\ C27_Moves
C27_PageInRange == [][C27_Step]_vars

----------------------------------------------------------------------------
(* Termination of jobs *)

C28_Final(j) ==
    /\ j \in DOMAIN jobs
    /\ jobs[j].state \in {"Succeeded", "Exhausted"}
    /\ jobs[j].attemptCount \in 1..MAX_RETRIES

\* C28: under fair scheduling every enqueued job eventually reaches Succeeded
\* or Exhausted, after at most 5 executions of the processor; no job stays
\* Pending or Running forever. Jobs never leave the sequence `jobs`, so from
\* some point on every job that was ever enqueued has ended.
C28_JobsTerminate ==
    /\ [](\A j \in DOMAIN jobs : jobs[j].attemptCount <= MAX_RETRIES)
    /\ <>[](\A j \in DOMAIN jobs : C28_Final(j))

\* every job in the queue has ended, one of them on its 5th execution and one
\* on an earlier one or the same
C28_Witness ==
    /\ jobs # << >>
    /\ \A j \in DOMAIN jobs : C28_Final(j)
    /\ \E j \in DOMAIN jobs :
          jobs[j].state = "Succeeded" /\ jobs[j].attemptCount = MAX_RETRIES

----------------------------------------------------------------------------
(* The synchronisation loop inside a job *)

\* nothing was synchronised yet
NoSyncs ==
    [attempts |-> [j \in 1..MaxRequests |-> 0], job |-> 0,
     outcomes |-> [i \in 1..maxRetries |-> "ok"],
     last |-> [threw |-> FALSE, error |-> "", attempts |-> 0, slept |-> << >>]]

InitSync ==
    /\ reqs = << >>
    /\ jobs = << >>
    /\ workers = [w \in 1..Workers |-> 0]
    /\ now = 0
    /\ alerts = << >>
    /\ Mounted
    /\ vin = NoInput
    /\ vout = NoSyncs

\* Shopify delivers a signed orders/create webhook with an order in it: the
\* one job whose synchronisation is followed
PostOrder ==
    /\ reqs = << >>
    /\ PostWebhook([body |-> OrderBody, hmacHeader |-> Header(SignatureOf[OrderBody]),
                  topic |-> "orders/create"])

\* the attempt worker loop w is running calls handleOrderCreate, whose call of
\* syncOrderToInternalSystem goes through the loop with the given outcomes
SyncOrder(w, outcomes) ==
    /\ workers[w] # 0
    /\ LET j == workers[w]
           r == syncOrderToInternalSystem(outcomes)
       IN  /\ jobs[j].data.topic = "orders/create"
           /\ jobs[j].data.payload.line_items
           /\ Processed(w, IF r.threw THEN r.error ELSE "ok")
           /\ vout' = [attempts |-> [vout.attempts EXCEPT ![j] = @ + r.attempts],
                       job |-> j, outcomes |-> outcomes, last |-> r]
    /\ UNCHANGED <<reqs, now, vin, listVars>>

NextSync ==
    \/ PostOrder
    \/ \E i \in 1..MaxRequests : AddResolves(i)
    \/ \E w \in 1..Workers, j \in 1..MaxRequests : DequeueReady(w, j)
    \/ \E w \in 1..Workers, outcomes \in TryOutcomes : SyncOrder(w, outcomes)
    \/ Tick

SpecSync == InitSync /\ [][NextSync]_vars

\* the passes through the try block that failed before the first that did not
FailedBefore(outcomes) ==
    {i \in 1..3 : \A k \in 1..i : outcomes[k] # "ok"}

\* C29: a call of syncOrderToInternalSystem makes at most 3 attempts and
\* returns true at the first that succeeds; it sleeps 1000 ms after the first
\* failed attempt and 2000 ms after the second, and not after the third; after
\* 3 failures it throws an error that carries the message of the last failure;
\* so a job, with its 5 attempts in the queue, makes at most 15 sync attempts.
C29_SyncRetries ==
    vout.job # 0 =>
        LET failed == Cardinality(FailedBefore(vout.outcomes))
            r == vout.last
        IN  /\ r.attempts \in 1..3
            /\ r.attempts = IF failed = 3 THEN 3 ELSE failed + 1
            /\ r.threw = (failed = 3)
            /\ r.slept = CASE failed = 0 -> << >>
                           [] failed = 1 -> <<1000>>
                           [] OTHER -> <<1000, 2000>>
            /\ r.threw =>
                  /\ r.error = FailedToSync(vout.outcomes[3])
                  /\ jobs[vout.job].lastError = r.error
            /\ \A j \in DOMAIN jobs :
                  /\ vout.attempts[j] <= 15
                  /\ vout.attempts[j] <= 3 * jobs[j].attemptCount

\* a job has used all 5 attempts and every one of them failed 3 times
C29_Witness ==
    /\ vout.job # 0
    /\ vout.last.threw /\ vout.last.slept = <<1000, 2000>>
    /\ jobs[vout.job].state = "Exhausted"
    /\ vout.attempts[vout.job] = 15

====
